---- MODULE Spec2Model ----
(***************************************************************************)
(* Polled push-button light flasher (src/tests/state_machine.cpp).         *)
(*                                                                         *)
(* PolledButtonBehavior is a four-state machine driven by do_work(), which *)
(* calls handle_state() until it returns false.  The engine reads a port   *)
(* (IIO) and a timer (ITimer) and commands the light through the port.     *)
(* One handle_state() call is one atomic step of the model; do_work() is   *)
(* its entry followed by one step per loop iteration, because the loop     *)
(* has no bound of its own.                                                *)
(***************************************************************************)
EXTENDS Integers, Sequences, FiniteSets, TLC

(* Bounds of the history kept about one do_work() call; the counters       *)
(* saturate there, which keeps a call that never returns finite-state.     *)
MaxCount == 4
MaxTrace == 4
MaxCalls == 3

\* The number of blink flips after which a press-to-release episode is no
\* longer recorded.
MaxEpisode == 3

\* Model (src/tests/clarity_example.cpp): the values passed to setStates and
\* setOtherValues are -MaxValue..MaxValue; an arbitrary Model has at most
\* MaxZeros zero entries in other_values (or all of them).
MaxValue == 3
MaxZeros == 2

NUM_OTHER_VALUES == 16

VARIABLES
    current_state,          \* PolledButtonBehavior::current_state
    light_value,            \* TestIO::light_value
    button_pressed_value,   \* TestIO::button_pressed_value / IIO::button_pressed()
    button_released_value,  \* what button_released() answers on a port other than TestIO
    io_impl,                \* which IIO implementation was injected at construction
    expired_value,          \* TestTimer::expired_value
    pc,                     \* "idle": the driver holds control, "work": inside do_work()'s loop
    last_op,                \* the operation that returned last: "none", "handle_state", "do_work"
    hs,                     \* record of the most recent handle_state() call
    call,                   \* record of the current / most recent do_work() call
    idle_only,              \* no handle_state() so far has seen button_pressed() true
    ncalls,                 \* number of do_work() calls that have returned (saturating)
    settled,                \* do_work() has returned and the port and timer were left alone since
    episode,                \* the set_light commands issued since the last press
    poweron,                \* Model::poweron
    state1,                 \* Model::state1
    state2,                 \* Model::state2
    state3,                 \* Model::state3
    other_values,           \* Model::other_values
    verdict                 \* what the Model's validity queries returned last

model_vars == <<poweron, state1, state2, state3, other_values, verdict>>

engine_vars == <<current_state, light_value, button_pressed_value, button_released_value,
                 io_impl, expired_value, pc, last_op, hs, call, idle_only, ncalls,
                 settled, episode>>

vars == <<current_state, light_value, button_pressed_value, button_released_value,
          io_impl, expired_value, pc, last_op, hs, call, idle_only, ncalls,
          settled, episode, poweron, state1, state2, state3, other_values, verdict>>

States == {"NotPressed", "BlinkOn", "BlinkOff", "ReleasedButton"}

OnOff == {"On", "Off"}

Blinking == {"BlinkOn", "BlinkOff"}

Min(a, b) == IF a < b THEN a ELSE b

AppendCapped(s, t, n) == SubSeq(s \o t, 1, Min(Len(s \o t), n))

(***************************************************************************)
(* The collaborators.                                                      *)
(***************************************************************************)

\* The port's two queries.  A port is the record of its fields.
button_pressed(io) == io.button_pressed_value

\* TestIO answers the negation of its one field; any other IIO answers
\* whatever it likes, independently of button_pressed().
button_released(io) ==
    IF io.io_impl = "TestIO" THEN ~io.button_pressed_value
                             ELSE io.button_released_value

\* A mutant of timer_reset: a reset that leaves the expiry in place.
timer_reset_sticky(expired) == expired

\* TestTimer::reset: the value of expired_value after the call.
timer_reset(expired) == FALSE

\* TestTimer::expired: a plain read.
timer_expired(expired) == expired

(***************************************************************************)
(* handle_state().  The engine and its collaborators are passed as the     *)
(* record e = [current_state, light_value, expired_value, io]; the result  *)
(* adds ret (the return value), lights (the set_light commands issued, in  *)
(* order) and resets (the number of timer.reset calls).                    *)
(***************************************************************************)

Stable(e) ==
    [current_state |-> e.current_state, light_value |-> e.light_value,
     expired_value |-> e.expired_value, ret |-> FALSE, lights |-> <<>>, resets |-> 0]

\* A mutant of NotPressedCase: the timer is not reset on the press.
NotPressedCaseNoReset(e) ==
    IF button_pressed(e.io)
    THEN [current_state |-> "BlinkOn", light_value |-> "On",
          expired_value |-> e.expired_value,
          ret |-> TRUE, lights |-> <<"On">>, resets |-> 0]
    ELSE Stable(e)

\* A mutant of NotPressedCase: the transition is taken without a press.
NotPressedCaseEager(e) ==
    [current_state |-> "BlinkOn", light_value |-> "On",
     expired_value |-> timer_reset(e.expired_value),
     ret |-> TRUE, lights |-> <<"On">>, resets |-> 1]

\* A mutant of NotPressedCase: the press moves on without lighting the light.
NotPressedCaseDark(e) ==
    IF button_pressed(e.io)
    THEN [current_state |-> "BlinkOn", light_value |-> e.light_value,
          expired_value |-> timer_reset(e.expired_value),
          ret |-> TRUE, lights |-> <<>>, resets |-> 1]
    ELSE Stable(e)

NotPressedCase(e) ==
    IF button_pressed(e.io)
    THEN [current_state |-> "BlinkOn", light_value |-> "On",
          expired_value |-> timer_reset(e.expired_value),
          ret |-> TRUE, lights |-> <<"On">>, resets |-> 1]
    ELSE Stable(e)

\* A mutant of BlinkOnCase: the expiry is checked before the release.
BlinkOnCaseExpiryFirst(e) ==
    IF timer_expired(e.expired_value)
    THEN [current_state |-> "BlinkOff", light_value |-> "Off",
          expired_value |-> timer_reset(e.expired_value),
          ret |-> TRUE, lights |-> <<"Off">>, resets |-> 1]
    ELSE IF button_released(e.io)
    THEN [Stable(e) EXCEPT !.current_state = "ReleasedButton", !.ret = TRUE]
    ELSE Stable(e)

\* A mutant of BlinkOnCase: the expiry flips the state but the light stays.
BlinkOnCaseNoLight(e) ==
    IF button_released(e.io)
    THEN [Stable(e) EXCEPT !.current_state = "ReleasedButton", !.ret = TRUE]
    ELSE IF timer_expired(e.expired_value)
    THEN [current_state |-> "BlinkOff", light_value |-> e.light_value,
          expired_value |-> timer_reset(e.expired_value),
          ret |-> TRUE, lights |-> <<>>, resets |-> 1]
    ELSE Stable(e)

\* A mutant of BlinkOnCase: the release is read off button_pressed().
BlinkOnCaseNotPressed(e) ==
    IF ~button_pressed(e.io)
    THEN [Stable(e) EXCEPT !.current_state = "ReleasedButton", !.ret = TRUE]
    ELSE IF timer_expired(e.expired_value)
    THEN [current_state |-> "BlinkOff", light_value |-> "Off",
          expired_value |-> timer_reset(e.expired_value),
          ret |-> TRUE, lights |-> <<"Off">>, resets |-> 1]
    ELSE Stable(e)

\* A mutant of BlinkOnCase: the release already puts the light out.
BlinkOnCaseOffOnRelease(e) ==
    IF button_released(e.io)
    THEN [Stable(e) EXCEPT !.current_state = "ReleasedButton", !.ret = TRUE,
                           !.light_value = "Off", !.lights = <<"Off">>]
    ELSE IF timer_expired(e.expired_value)
    THEN [current_state |-> "BlinkOff", light_value |-> "Off",
          expired_value |-> timer_reset(e.expired_value),
          ret |-> TRUE, lights |-> <<"Off">>, resets |-> 1]
    ELSE Stable(e)

BlinkOnCase(e) ==
    IF button_released(e.io)
    THEN [Stable(e) EXCEPT !.current_state = "ReleasedButton", !.ret = TRUE]
    ELSE IF timer_expired(e.expired_value)
    THEN [current_state |-> "BlinkOff", light_value |-> "Off",
          expired_value |-> timer_reset(e.expired_value),
          ret |-> TRUE, lights |-> <<"Off">>, resets |-> 1]
    ELSE Stable(e)

\* A mutant of BlinkOffCase: the expiry is consumed but the light never
\* comes back on.
BlinkOffCaseNoFlip(e) ==
    IF button_released(e.io)
    THEN [Stable(e) EXCEPT !.current_state = "ReleasedButton", !.ret = TRUE]
    ELSE IF timer_expired(e.expired_value)
    THEN [current_state |-> "BlinkOff", light_value |-> "Off",
          expired_value |-> timer_reset(e.expired_value),
          ret |-> FALSE, lights |-> <<"Off">>, resets |-> 1]
    ELSE Stable(e)

\* A mutant of BlinkOffCase: the flip back commands Off again.
BlinkOffCaseWrongLight(e) ==
    IF button_released(e.io)
    THEN [Stable(e) EXCEPT !.current_state = "ReleasedButton", !.ret = TRUE]
    ELSE IF timer_expired(e.expired_value)
    THEN [current_state |-> "BlinkOn", light_value |-> "Off",
          expired_value |-> timer_reset(e.expired_value),
          ret |-> TRUE, lights |-> <<"Off">>, resets |-> 1]
    ELSE Stable(e)

BlinkOffCase(e) ==
    IF button_released(e.io)
    THEN [Stable(e) EXCEPT !.current_state = "ReleasedButton", !.ret = TRUE]
    ELSE IF timer_expired(e.expired_value)
    THEN [current_state |-> "BlinkOn", light_value |-> "On",
          expired_value |-> timer_reset(e.expired_value),
          ret |-> TRUE, lights |-> <<"On">>, resets |-> 1]
    ELSE Stable(e)

\* A mutant of ReleasedButtonCase: the state waits for the button to be up.
ReleasedButtonCaseWaits(e) ==
    IF button_pressed(e.io)
    THEN Stable(e)
    ELSE [current_state |-> "NotPressed", light_value |-> "Off",
          expired_value |-> e.expired_value,
          ret |-> TRUE, lights |-> <<"Off">>, resets |-> 0]

\* A mutant of ReleasedButtonCase: the light is left as it was.
ReleasedButtonCaseNoLight(e) ==
    [current_state |-> "NotPressed", light_value |-> e.light_value,
     expired_value |-> e.expired_value,
     ret |-> TRUE, lights |-> <<>>, resets |-> 0]

\* A mutant of ReleasedButtonCase: the timer is reset on the way out.
ReleasedButtonCaseResets(e) ==
    [current_state |-> "NotPressed", light_value |-> "Off",
     expired_value |-> timer_reset(e.expired_value),
     ret |-> TRUE, lights |-> <<"Off">>, resets |-> 1]

ReleasedButtonCase(e) ==
    [current_state |-> "NotPressed", light_value |-> "Off",
     expired_value |-> e.expired_value,
     ret |-> TRUE, lights |-> <<"Off">>, resets |-> 0]

\* A mutant of handle_state: the release transition reports no progress.
handle_state_quiet(e) ==
    LET r == CASE e.current_state = "NotPressed"     -> NotPressedCase(e)
               [] e.current_state = "BlinkOn"        -> BlinkOnCase(e)
               [] e.current_state = "BlinkOff"       -> BlinkOffCase(e)
               [] e.current_state = "ReleasedButton" -> ReleasedButtonCase(e)
    IN  IF r.current_state = "ReleasedButton" THEN [r EXCEPT !.ret = FALSE] ELSE r

handle_state(e) ==
    CASE e.current_state = "NotPressed"     -> NotPressedCase(e)
      [] e.current_state = "BlinkOn"        -> BlinkOnCase(e)
      [] e.current_state = "BlinkOff"       -> BlinkOffCase(e)
      [] e.current_state = "ReleasedButton" -> ReleasedButtonCase(e)

(***************************************************************************)
(* The busy-wait variant, and the record of what the polled engine         *)
(* commands between a press and the release that ends it.                  *)
(***************************************************************************)

toggle(value) == IF value = "On" THEN "Off" ELSE "On"

\* The loop of flash_until_button_released: n is the number of times
\* button_released_or_timer_expired answers Timer before it answers
\* Released; the result is the set_light commands issued from there on.
RECURSIVE FlashLoop(_, _)
FlashLoop(light_state, n) ==
    IF n = 0
    THEN <<"Off">>
    ELSE <<toggle(light_state)>> \o FlashLoop(toggle(light_state), n - 1)

\* The set_light commands of one flash_until_button_released call.
flash_until_button_released(n) == <<"On">> \o FlashLoop("On", n)

NoEpisode == [status |-> "none", lights |-> <<>>, flips |-> 0]

CutEpisode == [status |-> "cut", lights |-> <<>>, flips |-> 0]

\* The episode after a handle_state() call made in state from with result r.
\* A press opens it, a blink flip adds to it, the step out of ReleasedButton
\* closes it; it is cut once it holds more than MaxEpisode flips (or more
\* commands than MaxEpisode flips can come with).
EpisodeAfter(ep, from, r) ==
    LET next ==
            IF from = "NotPressed" /\ r.current_state = "BlinkOn"
            THEN [status |-> "open", lights |-> r.lights, flips |-> 0]
            ELSE IF ep.status # "open"
            THEN ep
            ELSE IF from \in Blinking /\ r.current_state \in Blinking
                    /\ r.current_state # from
            THEN [ep EXCEPT !.lights = @ \o r.lights, !.flips = @ + 1]
            ELSE IF from = "ReleasedButton"
            THEN [ep EXCEPT !.status = "done", !.lights = @ \o r.lights]
            ELSE [ep EXCEPT !.lights = @ \o r.lights]
    IN  IF next.flips > MaxEpisode \/ Len(next.lights) > MaxEpisode + 2
        THEN CutEpisode
        ELSE next

(***************************************************************************)
(* Model (src/tests/clarity_example.cpp).  A Model is the record of its    *)
(* fields, m = [poweron, state1, state2, state3, other_values];            *)
(* other_values is indexed 0..NUM_OTHER_VALUES-1 as the array is.  Each    *)
(* loop is a recursive operator over the index it walks.                   *)
(***************************************************************************)

\* The ints the setters are called with.
ModelValues == (0 - MaxValue) .. MaxValue

OtherIndex == 0 .. (NUM_OTHER_VALUES - 1)

\* A state is valid if it is non-zero.
statesValid(m) == m.state1 # 0 /\ m.state2 # 0 /\ m.state3 # 0

poweredOn(m) == m.poweron

RECURSIVE otherValuesNonZeroFrom(_, _)
otherValuesNonZeroFrom(m, i) ==
    IF i = NUM_OTHER_VALUES THEN TRUE
    ELSE IF m.other_values[i] = 0 THEN FALSE
    ELSE otherValuesNonZeroFrom(m, i + 1)

otherValuesNonZero(m) == otherValuesNonZeroFrom(m, 0)

\* A mutant of isValid: the other_values are not looked at.
isValidNoOthers(m) == poweredOn(m) /\ statesValid(m)

isValid(m) == poweredOn(m) /\ statesValid(m) /\ otherValuesNonZero(m)

RECURSIVE isValidOld3Loop(_, _)
isValidOld3Loop(m, i) ==
    IF i = NUM_OTHER_VALUES THEN TRUE
    ELSE IF m.other_values[i] = 0 THEN FALSE
    ELSE isValidOld3Loop(m, i + 1)

\* A mutant of isValidOld3: state3 is left out of the first test.
isValidOld3NoState3(m) ==
    IF ~m.poweron \/ m.state1 = 0 \/ m.state2 = 0
    THEN FALSE
    ELSE isValidOld3Loop(m, 0)

isValidOld3(m) ==
    IF ~m.poweron \/ m.state1 = 0 \/ m.state2 = 0 \/ m.state3 = 0
    THEN FALSE
    ELSE isValidOld3Loop(m, 0)

\* The loop of isValidOld2 and isValidOld: valid is the flag on entry.
RECURSIVE validLoop(_, _, _)
validLoop(m, i, valid) ==
    IF i = NUM_OTHER_VALUES THEN valid
    ELSE IF m.other_values[i] = 0 THEN FALSE
    ELSE validLoop(m, i + 1, valid)

isValidOld2(m) ==
    LET valid == IF ~m.poweron \/ m.state1 = 0 \/ m.state2 = 0 \/ m.state3 = 0
                 THEN FALSE ELSE TRUE
    IN  validLoop(m, 0, valid)

isValidOld(m) ==
    IF m.poweron /\ m.state1 # 0 /\ m.state2 # 0 /\ m.state3 # 0
    THEN validLoop(m, 0, TRUE)
    ELSE TRUE

(***************************************************************************)
(* The state of the program as the records the operators work on.          *)
(***************************************************************************)

TheModel == [poweron |-> poweron, state1 |-> state1, state2 |-> state2,
             state3 |-> state3, other_values |-> other_values]

NoVerdict == [fresh |-> FALSE, isValid |-> FALSE, isValidOld |-> FALSE,
              isValidOld2 |-> FALSE, isValidOld3 |-> FALSE]

Port == [io_impl |-> io_impl, button_pressed_value |-> button_pressed_value,
         button_released_value |-> button_released_value]

Engine == [current_state |-> current_state, light_value |-> light_value,
           expired_value |-> expired_value, io |-> Port]

\* What a call sees when it starts.
Snapshot ==
    [current_state |-> current_state, light_value |-> light_value,
     expired_value |-> expired_value,
     pressed |-> button_pressed(Port), released |-> button_released(Port)]

NoCall == [pre |-> Snapshot, count |-> 0, visited |-> <<>>, lights |-> <<>>, resets |-> 0,
           settled |-> settled]

NoStep == [pre |-> Snapshot, ret |-> FALSE, lights |-> <<>>, resets |-> 0]

TypeOK ==
    /\ current_state \in States
    /\ light_value \in OnOff
    /\ button_pressed_value \in BOOLEAN
    /\ button_released_value \in BOOLEAN
    /\ io_impl \in {"TestIO", "AnyIO"}
    /\ expired_value \in BOOLEAN
    /\ pc \in {"idle", "work"}
    /\ last_op \in {"none", "handle_state", "do_work"}
    /\ call.count \in 0..MaxCount
    /\ Len(call.visited) <= MaxTrace
    /\ Len(call.lights) <= MaxTrace
    /\ call.resets \in 0..MaxCount
    /\ idle_only \in BOOLEAN
    /\ ncalls \in 0..MaxCalls

(***************************************************************************)
(* Construction: TestIO io; TestTimer timer; PolledButtonBehavior(io,      *)
(* timer).                                                                 *)
(***************************************************************************)

InitCommon ==
    /\ current_state = "NotPressed"
    /\ light_value = "Off"
    /\ button_pressed_value = FALSE
    /\ expired_value = FALSE
    /\ pc = "idle"
    /\ last_op = "none"
    /\ idle_only = TRUE
    /\ ncalls = 0
    /\ settled = FALSE
    /\ episode = NoEpisode
    /\ verdict = NoVerdict

\* auto model = Model();
ModelInit ==
    /\ poweron = FALSE
    /\ state1 = 0
    /\ state2 = 0
    /\ state3 = 0
    /\ other_values = [i \in OtherIndex |-> 0]

Init ==
    /\ InitCommon
    /\ io_impl = "TestIO"
    /\ button_released_value = TRUE
    /\ hs = NoStep
    /\ call = NoCall
    /\ ModelInit

\* The engine built on a port whose two queries are independent.
InitAnyIO ==
    /\ InitCommon
    /\ io_impl = "AnyIO"
    /\ button_released_value \in BOOLEAN
    /\ hs = NoStep
    /\ call = NoCall
    /\ ModelInit

\* The other_values arrays a Model in an arbitrary state is given: every
\* entry 1 except for a set of at most MaxZeros zero entries, or all zero.
OtherValuesInputs ==
    { [i \in OtherIndex |-> IF i \in Z THEN 0 ELSE 1] :
        Z \in { S \in SUBSET OtherIndex :
                    Cardinality(S) <= MaxZeros \/ S = OtherIndex } }

\* A Model in an arbitrary state of its fields, each zero or non-zero.
InitAnyModel ==
    /\ InitCommon
    /\ io_impl = "TestIO"
    /\ button_released_value = TRUE
    /\ hs = NoStep
    /\ call = NoCall
    /\ poweron \in BOOLEAN
    /\ state1 \in {0, 1}
    /\ state2 \in {0, 1}
    /\ state3 \in {0, 1}
    /\ other_values \in OtherValuesInputs

(***************************************************************************)
(* The driver (the test body): it changes the port and the timer between   *)
(* calls and calls handle_state() or do_work().                            *)
(***************************************************************************)

\* io.button_pressed_value = b;
SetButton(b) ==
    /\ pc = "idle"
    /\ io_impl = "TestIO"
    /\ button_pressed_value # b
    /\ button_pressed_value' = b
    /\ settled' = FALSE
    /\ UNCHANGED <<current_state, light_value, button_released_value, io_impl,
                   expired_value, pc, last_op, hs, call, idle_only, ncalls>>
    /\ UNCHANGED <<episode, model_vars>>

\* A port other than TestIO changes what its two queries answer.
SetSignals(p, r) ==
    /\ pc = "idle"
    /\ io_impl = "AnyIO"
    /\ <<p, r>> # <<button_pressed_value, button_released_value>>
    /\ button_pressed_value' = p
    /\ button_released_value' = r
    /\ settled' = FALSE
    /\ UNCHANGED <<current_state, light_value, io_impl, expired_value, pc,
                   last_op, hs, call, idle_only, ncalls>>
    /\ UNCHANGED <<episode, model_vars>>

\* timer.expired_value = true;
Expire ==
    /\ pc = "idle"
    /\ ~expired_value
    /\ expired_value' = TRUE
    /\ settled' = FALSE
    /\ UNCHANGED <<current_state, light_value, button_pressed_value,
                   button_released_value, io_impl, pc, last_op, hs, call,
                   idle_only, ncalls>>
    /\ UNCHANGED <<episode, model_vars>>

\* The part of a handle_state() call common to both of its callers.
HandleStateEffect(r) ==
    /\ current_state' = r.current_state
    /\ light_value' = r.light_value
    /\ expired_value' = r.expired_value
    /\ hs' = [pre |-> Snapshot, ret |-> r.ret, lights |-> r.lights, resets |-> r.resets]
    /\ idle_only' = (idle_only /\ ~button_pressed(Port))
    /\ episode' = EpisodeAfter(episode, current_state, r)
    /\ UNCHANGED <<button_pressed_value, button_released_value, io_impl>>
    /\ UNCHANGED model_vars

\* behavior.handle_state() called by the driver itself.
HandleStateCall ==
    /\ pc = "idle"
    /\ HandleStateEffect(handle_state(Engine))
    /\ last_op' = "handle_state"
    /\ UNCHANGED <<pc, call, ncalls, settled>>

\* behavior.do_work() is entered.
DoWorkCall ==
    /\ pc = "idle"
    /\ pc' = "work"
    /\ call' = NoCall
    /\ UNCHANGED <<current_state, light_value, button_pressed_value,
                   button_released_value, io_impl, expired_value, last_op, hs,
                   idle_only, ncalls>>
    /\ UNCHANGED <<settled, episode, model_vars>>

\* One iteration of while (handle_state() == true) {}.
DoWorkLoop ==
    /\ pc = "work"
    /\ LET r == handle_state(Engine) IN
        /\ HandleStateEffect(r)
        /\ IF r.ret
           THEN /\ pc' = "work"
                /\ call' = [call EXCEPT
                       !.count = Min(@ + 1, MaxCount),
                       !.visited = AppendCapped(@, <<r.current_state>>, MaxTrace),
                       !.lights = AppendCapped(@, r.lights, MaxTrace),
                       !.resets = Min(@ + r.resets, MaxCount)]
                /\ UNCHANGED <<last_op, ncalls, settled>>
           ELSE /\ pc' = "idle"
                /\ last_op' = "do_work"
                /\ ncalls' = Min(ncalls + 1, MaxCalls)
                /\ settled' = TRUE
                /\ UNCHANGED call

(***************************************************************************)
(* The Model's operations, as TEST(ClarityExample, demo) calls them.       *)
(***************************************************************************)

\* model.turnPowerOn(on);
turnPowerOn(on) ==
    /\ poweron' = on
    /\ verdict' = NoVerdict
    /\ UNCHANGED <<state1, state2, state3, other_values, engine_vars>>

\* model.setStates(value);
setStates(value) ==
    /\ state1' = value
    /\ state2' = value
    /\ state3' = value
    /\ verdict' = NoVerdict
    /\ UNCHANGED <<poweron, other_values, engine_vars>>

\* model.setOtherValues(value);
setOtherValues(value) ==
    /\ other_values' = [i \in OtherIndex |-> value]
    /\ verdict' = NoVerdict
    /\ UNCHANGED <<poweron, state1, state2, state3, engine_vars>>

\* The four validity queries are called on the Model as it is.
QueryValid ==
    /\ verdict' = [fresh |-> TRUE,
                   isValid |-> isValid(TheModel),
                   isValidOld |-> isValidOld(TheModel),
                   isValidOld2 |-> isValidOld2(TheModel),
                   isValidOld3 |-> isValidOld3(TheModel)]
    /\ UNCHANGED <<poweron, state1, state2, state3, other_values, engine_vars>>

NextModel ==
    \/ \E on \in BOOLEAN : turnPowerOn(on)
    \/ \E value \in ModelValues : setStates(value)
    \/ \E value \in ModelValues : setOtherValues(value)
    \/ QueryValid

\* The Model from its construction.
SpecModel == Init /\ [][NextModel]_vars

\* The Model from an arbitrary state of its fields.
SpecAnyModel == InitAnyModel /\ [][NextModel]_vars

Next ==
    \/ \E b \in BOOLEAN : SetButton(b)
    \/ Expire
    \/ HandleStateCall
    \/ DoWorkCall
    \/ DoWorkLoop

Spec == Init /\ [][Next]_vars

NextAnyIO ==
    \/ \E p, r \in BOOLEAN : SetSignals(p, r)
    \/ Expire
    \/ HandleStateCall
    \/ DoWorkCall
    \/ DoWorkLoop

SpecAnyIO == InitAnyIO /\ [][NextAnyIO]_vars

\* The button changes while do_work() is between two handle_state() calls.
SetButtonInCall(b) ==
    /\ pc = "work"
    /\ io_impl = "TestIO"
    /\ button_pressed_value # b
    /\ button_pressed_value' = b
    /\ settled' = FALSE
    /\ UNCHANGED <<current_state, light_value, button_released_value, io_impl,
                   expired_value, pc, last_op, hs, call, idle_only, ncalls>>
    /\ UNCHANGED <<episode, model_vars>>

\* The timer expires while do_work() is between two handle_state() calls.
ExpireInCall ==
    /\ pc = "work"
    /\ ~expired_value
    /\ expired_value' = TRUE
    /\ settled' = FALSE
    /\ UNCHANGED <<current_state, light_value, button_pressed_value,
                   button_released_value, io_impl, pc, last_op, hs, call,
                   idle_only, ncalls>>
    /\ UNCHANGED <<episode, model_vars>>

NextAsync ==
    \/ Next
    \/ \E b \in BOOLEAN : SetButtonInCall(b)
    \/ ExpireInCall

\* The port and the timer are driven by hardware: their values change at
\* any point, also inside a do_work() call.
SpecAsync == Init /\ [][NextAsync]_vars

\* A step that is one handle_state() call, whoever made it.
HandleStep == HandleStateCall \/ DoWorkLoop

\* The driver loop calls do_work() again and again, and a call that has
\* been entered keeps running.
FairSpec == Spec /\ WF_vars(DoWorkCall) /\ WF_vars(DoWorkLoop)

FairSpecAnyIO == SpecAnyIO /\ WF_vars(DoWorkCall) /\ WF_vars(DoWorkLoop)

\* A do_work() call has returned and nothing was called since.
Returned == pc = "idle" /\ last_op = "do_work"

(***************************************************************************)
(* Properties.  call.pre and hs.pre are what the call saw when it started; *)
(* the driver changes the port and the timer only between calls, so they   *)
(* are the values of the whole call.                                       *)
(***************************************************************************)

\* C1: idle invariant.  As long as every poll so far has found
\* button_pressed() false, the engine created in NotPressed with the light
\* Off is in NotPressed with the light Off, whatever the timer says.
C1_IdleInvariant ==
    idle_only => (current_state = "NotPressed" /\ light_value = "Off")

\* Two or more do_work() calls have returned, none saw the button pressed,
\* and the timer is expired.
C1_Witness ==
    Returned /\ idle_only /\ ncalls >= 2 /\ expired_value

\* C2: press.  A do_work() call made in NotPressed with the button pressed
\* returns in BlinkOn with the light On; a do_work() call made in BlinkOn
\* with the button held and the timer not expired makes no transition and
\* returns in BlinkOn with the light On.
C2_PressThenHold ==
    Returned =>
        /\ (call.pre.current_state = "NotPressed" /\ call.pre.pressed
                /\ ~call.pre.released)
            => (current_state = "BlinkOn" /\ light_value = "On")
        /\ (call.pre.current_state = "BlinkOn" /\ call.pre.pressed
                /\ ~call.pre.released /\ ~call.pre.expired_value)
            => (current_state = "BlinkOn" /\ light_value = "On" /\ call.count = 0)

\* A later do_work() call has returned that found BlinkOn, the button held
\* and the timer running.
C2_Witness ==
    /\ Returned /\ ncalls >= 2
    /\ call.pre.current_state = "BlinkOn" /\ call.pre.pressed
    /\ ~call.pre.expired_value /\ current_state = "BlinkOn"

\* C3: blink alternation.  A do_work() call made with the button held and
\* the timer expired makes exactly one transition: from BlinkOn it returns
\* in BlinkOff having commanded Off, from BlinkOff it returns in BlinkOn
\* having commanded On.
C3_BlinkAlternation ==
    (call.pre.current_state \in Blinking /\ call.pre.pressed
        /\ ~call.pre.released /\ call.pre.expired_value)
    => /\ call.count <= 1
       /\ Returned =>
            /\ call.count = 1
            /\ call.pre.current_state = "BlinkOn"
                => (current_state = "BlinkOff" /\ light_value = "Off"
                    /\ call.lights = <<"Off">>)
            /\ call.pre.current_state = "BlinkOff"
                => (current_state = "BlinkOn" /\ light_value = "On"
                    /\ call.lights = <<"On">>)

\* The flip back: a call that found BlinkOff (itself the result of a flip)
\* with the timer expired has returned in BlinkOn.
C3_Witness ==
    /\ Returned /\ call.pre.current_state = "BlinkOff" /\ call.pre.pressed
    /\ call.pre.expired_value /\ current_state = "BlinkOn"

\* C4: release precedence.  A do_work() call made in BlinkOn or BlinkOff
\* with the button released and the timer expired returns in NotPressed
\* with the light Off, having gone through ReleasedButton and nothing
\* else: the only light command is ReleasedButton's Off and the timer was
\* not reset (it is still expired).
C4_ReleasePrecedence ==
    (Returned /\ call.pre.current_state \in Blinking /\ call.pre.released
        /\ ~call.pre.pressed /\ call.pre.expired_value)
    => /\ current_state = "NotPressed"
       /\ light_value = "Off"
       /\ call.visited = <<"ReleasedButton", "NotPressed">>
       /\ call.lights = <<"Off">>
       /\ call.resets = 0
       /\ expired_value

\* Release and expiry together, found in BlinkOn.
C4_Witness ==
    /\ Returned /\ call.pre.current_state = "BlinkOn" /\ call.pre.released
    /\ call.pre.expired_value /\ call.pre.light_value = "On"

\* C5: release always resets.  A do_work() call made in BlinkOn or BlinkOff
\* with the button released returns in NotPressed with the light Off,
\* whatever the light and the timer were.
C5_ReleaseResets ==
    (Returned /\ call.pre.current_state \in Blinking /\ call.pre.released
        /\ ~call.pre.pressed)
    => (current_state = "NotPressed" /\ light_value = "Off")

\* A release found in BlinkOn with the light On and the timer running.
C5_Witness ==
    /\ Returned /\ call.pre.current_state = "BlinkOn" /\ call.pre.released
    /\ ~call.pre.expired_value /\ call.pre.light_value = "On"
    /\ current_state = "NotPressed"

\* C6: the return value of handle_state() is true exactly when the call
\* changed current_state, and it is false only in NotPressed with the
\* button not pressed or in BlinkOn/BlinkOff with neither release nor
\* expiry.
C6_HandleStateReports ==
    /\ hs.ret <=> (current_state # hs.pre.current_state)
    /\ ~hs.ret =>
        \/ hs.pre.current_state = "NotPressed" /\ ~hs.pre.pressed
        \/ /\ hs.pre.current_state \in Blinking
           /\ ~hs.pre.released /\ ~hs.pre.expired_value

\* handle_state() has returned true for the release transition on a port
\* that reports pressed and released together.
C6_Witness ==
    /\ hs.ret /\ hs.pre.current_state = "BlinkOn"
    /\ hs.pre.pressed /\ hs.pre.released
    /\ current_state = "ReleasedButton"

\* C7: every do_work() call returns: a call that has been entered gets
\* back to the driver, on a port whose button_pressed() and
\* button_released() are independent.
C7_DoWorkTerminates ==
    [](pc = "work" => <>(pc = "idle"))

\* C8: transition counts.  No do_work() call makes more than two
\* transitions; a press found in NotPressed makes exactly one (to BlinkOn),
\* an expiry found while held makes exactly one, a release found in
\* BlinkOn or BlinkOff makes exactly two (ReleasedButton, then NotPressed).
C8_TransitionCounts ==
    /\ call.count <= 2
    /\ Returned =>
        /\ (call.pre.current_state = "NotPressed" /\ call.pre.pressed)
            => (call.count = 1 /\ call.visited = <<"BlinkOn">>)
        /\ (call.pre.current_state \in Blinking /\ call.pre.pressed
                /\ call.pre.expired_value)
            => call.count = 1
        /\ (call.pre.current_state \in Blinking /\ call.pre.released)
            => (call.count = 2
                /\ call.visited = <<"ReleasedButton", "NotPressed">>)

\* A release found in BlinkOff was drained in two transitions.
C8_Witness ==
    Returned /\ call.pre.current_state = "BlinkOff" /\ call.count = 2

\* C9: ReleasedButton never stalls.  handle_state() called in
\* ReleasedButton returns true, commands the light Off and moves to
\* NotPressed whatever the port and the timer say, and no do_work() call
\* returns in ReleasedButton.
C9_ReleasedButtonNeverStalls ==
    /\ hs.pre.current_state = "ReleasedButton"
        => /\ hs.ret
           /\ hs.lights = <<"Off">>
           /\ hs.resets = 0
           /\ current_state = "NotPressed"
           /\ light_value = "Off"
    /\ Returned => current_state # "ReleasedButton"

\* handle_state() has run in ReleasedButton with pressed, released and
\* expired all true.
C9_Witness ==
    /\ hs.pre.current_state = "ReleasedButton"
    /\ hs.pre.pressed /\ hs.pre.released /\ hs.pre.expired_value

\* C10: under a driver that keeps calling do_work(): if from some point on
\* the button stays held and the timer keeps expiring, the light is On
\* infinitely often and Off infinitely often; if from some point on the
\* button stays released, the engine ends up in NotPressed with the light
\* Off for good; and NotPressed is left only by a step that finds the
\* button pressed.
C10_ContinuedBlinking ==
    /\ (<>[]button_pressed_value /\ []<>expired_value)
        => ([]<>(light_value = "On") /\ []<>(light_value = "Off"))
    /\ <>[](~button_pressed_value)
        => <>[](current_state = "NotPressed" /\ light_value = "Off")
    /\ [][(current_state = "NotPressed" /\ ~button_pressed_value)
            => current_state' = "NotPressed"]_vars

\* The light was blinking and the release has put it out.
C10_Witness ==
    /\ Returned /\ ncalls = MaxCalls /\ ~button_pressed_value
    /\ call.pre.current_state = "BlinkOff" /\ call.pre.expired_value
    /\ current_state = "NotPressed" /\ light_value = "Off"

(***************************************************************************)
(* Properties of the Model's validity queries.                             *)
(***************************************************************************)

\* The requirement as the comments above the queries word it: the power
\* is on, all states are non-zero and all other_values are non-zero.
RequirementHolds ==
    /\ poweron
    /\ state1 # 0 /\ state2 # 0 /\ state3 # 0
    /\ \A i \in OtherIndex : other_values[i] # 0

\* C11: after any sequence of turnPowerOn, setStates and setOtherValues on
\* a freshly constructed Model, isValid() returns true exactly when the
\* power is on, the three states are non-zero and all other_values are
\* non-zero; the fresh Model itself is not valid.
C11_IsValidMeetsRequirement ==
    verdict.fresh => (verdict.isValid <=> RequirementHolds)

\* isValid() has answered true on a Model that was powered on and had its
\* states and other_values set.
C11_Witness ==
    verdict.fresh /\ verdict.isValid /\ poweron /\ state1 = 1 /\ other_values[0] = 1

\* C19: isValidOld() returns true only when the requirement holds, that
\* is, it returns what isValid() returns.
C19_IsValidOldMeetsRequirement ==
    verdict.fresh =>
        /\ verdict.isValidOld => RequirementHolds
        /\ verdict.isValidOld = verdict.isValid

\* C20: isValidOld2() and isValidOld3() return what isValid() returns, for
\* every combination of poweron, zero or non-zero states and zero or
\* non-zero other_values.
C20_OldVariantsAgree ==
    verdict.fresh =>
        /\ verdict.isValidOld2 = verdict.isValid
        /\ verdict.isValidOld3 = verdict.isValid

\* The queries have answered on a Model whose power/state test fails (only
\* state3 is zero) while all other_values are non-zero.
C20_Witness ==
    /\ verdict.fresh /\ poweron /\ state1 # 0 /\ state2 # 0 /\ state3 = 0
    /\ \A i \in OtherIndex : other_values[i] # 0
    /\ ~verdict.isValidOld2 /\ ~verdict.isValidOld3

(***************************************************************************)
(* Properties of single handle_state() steps and of the light.             *)
(***************************************************************************)

\* The transitions on which the timer is rearmed.
ResetTransitions ==
    { <<"NotPressed", "BlinkOn">>, <<"BlinkOn", "BlinkOff">>,
      <<"BlinkOff", "BlinkOn">> }

\* C12: timer reset policy.  A handle_state() call resets the timer
\* exactly when it makes one of the three transitions NotPressed->BlinkOn,
\* BlinkOn->BlinkOff, BlinkOff->BlinkOn, and then once; the transitions
\* into ReleasedButton and out of it leave expired_value as it was.
C12_TimerResetPolicy ==
    [][HandleStep =>
        /\ hs'.resets \in {0, 1}
        /\ hs'.resets = 1 <=> <<current_state, current_state'>> \in ResetTransitions
        /\ (current_state' = "ReleasedButton" \/ current_state = "ReleasedButton")
            => (hs'.resets = 0 /\ expired_value' = expired_value)]_vars

\* The step out of ReleasedButton was made with the timer expired, and the
\* timer is still expired.
C12_Witness ==
    /\ hs.pre.current_state = "ReleasedButton" /\ hs.pre.expired_value
    /\ current_state = "NotPressed" /\ expired_value /\ hs.resets = 0

\* What a handle_state() call did, apart from the values it left alone.
Outcome(r) ==
    [current_state |-> r.current_state, ret |-> r.ret,
     lights |-> r.lights, resets |-> r.resets]

\* C13: signals are consulted only in their own states.  The handle_state()
\* call made last did what it would have done for every other value of
\* button_released() and timer.expired() if it was made in NotPressed, and
\* for every other value of button_pressed() if it was made in BlinkOn or
\* BlinkOff.
C13_UnconsultedSignals ==
    LET did == [current_state |-> current_state, ret |-> hs.ret,
                lights |-> hs.lights, resets |-> hs.resets]
        Alt(p, rl, x) ==
            Outcome(handle_state(
                [current_state |-> hs.pre.current_state,
                 light_value |-> hs.pre.light_value,
                 expired_value |-> x,
                 io |-> [io_impl |-> io_impl, button_pressed_value |-> p,
                         button_released_value |-> rl]]))
    IN  /\ hs.pre.current_state = "NotPressed"
            => \A rl, x \in BOOLEAN : Alt(hs.pre.pressed, rl, x) = did
        /\ hs.pre.current_state \in Blinking
            => \A p \in BOOLEAN :
                    Alt(p, hs.pre.released, hs.pre.expired_value) = did

\* A press was taken in NotPressed while button_released() and
\* timer.expired() were both true.
C13_Witness ==
    /\ hs.pre.current_state = "NotPressed" /\ hs.pre.pressed
    /\ hs.pre.released /\ hs.pre.expired_value
    /\ hs.ret /\ current_state = "BlinkOn"

\* C14: the timer as the engine uses it.  expired_value falls only in a
\* handle_state() call that resets the timer, a call that resets it leaves
\* it not expired, a call that does not reset it leaves it as it was, and
\* no do_work() call resets it (so flips the light) more than once.
C14_TimerContract ==
    /\ [][(expired_value /\ ~expired_value') => (HandleStep /\ hs'.resets = 1)]_vars
    /\ [][(HandleStep /\ hs'.resets >= 1) => ~expired_value']_vars
    /\ [][(HandleStep /\ hs'.resets = 0) => expired_value' = expired_value]_vars
    /\ [](call.resets <= 1)

\* One expiry found in BlinkOff was consumed by one flip, and the call
\* returned with the timer running.
C14_Witness ==
    /\ Returned /\ call.pre.current_state = "BlinkOff" /\ call.pre.expired_value
    /\ call.resets = 1 /\ call.count = 1 /\ ~expired_value

\* C15: a handle_state() call that returns false changes nothing and
\* issues no command; the transition from BlinkOn or BlinkOff to
\* ReleasedButton changes current_state only.
C15_NoEffectWhenStable ==
    [][HandleStep =>
        /\ ~hs'.ret =>
            /\ UNCHANGED <<current_state, light_value, expired_value>>
            /\ hs'.lights = <<>> /\ hs'.resets = 0
        /\ (current_state \in Blinking /\ current_state' = "ReleasedButton") =>
            /\ UNCHANGED <<light_value, expired_value>>
            /\ hs'.lights = <<>> /\ hs'.resets = 0]_vars

\* The driver's own handle_state() call has taken the release transition
\* out of BlinkOn with the light On and the timer expired.
C15_Witness ==
    /\ pc = "idle" /\ last_op = "handle_state"
    /\ hs.pre.current_state = "BlinkOn" /\ hs.pre.expired_value
    /\ current_state = "ReleasedButton" /\ light_value = "On" /\ expired_value

\* C16: light/state coupling.  Between any two handle_state() steps, also
\* when the button and the timer change inside a do_work() call, BlinkOn
\* has the light On, BlinkOff and NotPressed have it Off.
C16_LightStateCoupling ==
    /\ current_state = "BlinkOn" => light_value = "On"
    /\ current_state = "BlinkOff" => light_value = "Off"
    /\ current_state = "NotPressed" => light_value = "Off"

\* Inside a do_work() call the engine is in ReleasedButton with the light
\* still On, and the button has been pressed again since the release was
\* seen.
C16_Witness ==
    /\ pc = "work" /\ current_state = "ReleasedButton" /\ light_value = "On"
    /\ button_pressed_value /\ hs.pre.released

\* C17: do_work() is idempotent at a fixed instant.  Once do_work() has
\* returned and the port and the timer are left alone, every handle_state()
\* call returns false and changes nothing, and a do_work() call returns
\* after that one call with no transition made.
C17_DoWorkIdempotent ==
    /\ [][(settled /\ HandleStep) =>
            /\ ~hs'.ret
            /\ UNCHANGED <<current_state, light_value, expired_value>>]_vars
    /\ [][(settled /\ DoWorkLoop) => (pc' = "idle" /\ call'.count = 0)]_vars

\* A do_work() call entered right after another one returned has itself
\* returned, in BlinkOff.
C17_Witness ==
    /\ Returned /\ settled /\ call.settled /\ call.count = 0
    /\ current_state = "BlinkOff"

\* C18: the polled engine commands what the busy-wait variant commands.
\* From a press on, the set_light commands issued are those of
\* flash_until_button_released for the same number of timer expiries: all
\* of them once the release has been handled, all but the last Off before;
\* and each blink flip commands toggle() of the light as it is.
C18_MatchesBusyWait ==
    /\ [](episode.status = "done"
            => episode.lights = flash_until_button_released(episode.flips))
    /\ [](episode.status = "open"
            => episode.lights
                = SubSeq(flash_until_button_released(episode.flips),
                         1, episode.flips + 1))
    /\ [][(HandleStep /\ current_state \in Blinking /\ current_state' \in Blinking
            /\ current_state' # current_state)
          => hs'.lights = <<toggle(light_value)>>]_vars

\* A press, two expiries while held and the release have been handled.
C18_Witness ==
    episode.status = "done" /\ episode.flips = 2 /\ Len(episode.lights) = 4

====
